---- MODULE Spec2Model ----
(***************************************************************************)
(* State-derivation and refresh coordination of the token card             *)
(* (src/components/main/sections/Card/TokenCard.tsx).                      *)
(*                                                                         *)
(* Representation.                                                         *)
(*   - A JavaScript value that may be `undefined` is a sequence of length  *)
(*     at most one: << >> is undefined, <<v>> is the value v.  An empty    *)
(*     price series that is present is therefore << << >> >>, distinct     *)
(*     from an absent one.                                                 *)
(*   - A history point [unixSeconds, price] is the pair <<ts, price>>;     *)
(*     the code's point[0] and point[1] are pt[1] and pt[2] here.          *)
(*   - A price is an integer count of units of 1/UnitsPerOne, i.e. of      *)
(*     0.00005, so that rounding to 4 decimals is not the identity.        *)
(*   - Wall-clock values are milliseconds, history timestamps seconds.     *)
(***************************************************************************)
EXTENDS Integers, Sequences, FiniteSets, TLC

VARIABLES
    token,                  \* prop: the asset (symbol, live price)
    period,                 \* prop from global: accountState.currentTokenPeriod
    baseCurrency,           \* prop from global: settings.baseCurrency (optional)
    historyPeriods,         \* prop from global: tokenPriceHistory.bySlug[slug]
    selectedHistoryIndex,   \* component state (useState(-1))
    inflight,               \* loadPriceHistory requests dispatched, not yet answered
    lastPayload,            \* payload of the latest loadPriceHistory dispatch (optional)
    now,                    \* Date.now()
    renderedAt,             \* Date.now() as read by the last render
    timer,                  \* due time of the pending useTimeout(forceUpdate) (optional)
    fetchedFor,             \* per period: the key its stored series was requested for
    overwritten,            \* latest replacement of a stored series by an older one (optional)
    lastApplied             \* the request whose answer was stored last (optional)

\* Bookkeeping that only some of the specifications below keep: the offline
\* timer is kept by SpecOffline (within MaxTicks ticks of the mount it cannot
\* expire), the key of the stored series by SpecKeyed, and the order of
\* the answers by SpecOrder.  The other specifications leave all four as
\* they are initially.
extras == <<timer, fetchedFor, overwritten, lastApplied>>

vars == <<token, period, baseCurrency, historyPeriods, selectedHistoryIndex,
          inflight, lastPayload, now, renderedAt, extras>>

-----------------------------------------------------------------------------
(* Program constants *)

OFFLINE_TIMEOUT == 120000

INTERVAL == 5 * 1000

HISTORY_PERIODS == <<"1D", "7D">>

DEFAULT_PERIOD == HISTORY_PERIODS[1]

DEFAULT_PRICE_CURRENCY == "USD"

-----------------------------------------------------------------------------
(* Bounds and input sets of the model *)

\* number of interval ticks a behaviour may contain
MaxTicks == 2

\* number of requests that may be in flight at once
MaxInflight == 2

\* number of interval ticks of a behaviour that outlasts the offline timer
MaxOfflineTicks == 25

\* number of interval ticks of a behaviour whose answers are ordered
MaxOrderTicks == 2

\* units of price per 1.0 (one unit is half of the 4th decimal)
UnitsPerOne == 2 * 10000

\* wall clock at mount, in ms
MountTime == 1000 * 1000

Periods == {HISTORY_PERIODS[i] : i \in 1..Len(HISTORY_PERIODS)}

TokenSymbol == "TON"

\* currencies the currency menu offers (it excludes the token's own symbol)
MenuCurrencies == {"USD"}

\* live prices of the asset: 0, 12.0 and 9.99995
LivePrices == {0, 12 * UnitsPerOne, 10 * UnitsPerOne - 1}

Undefined == << >>

Some(v) == <<v>>

\* tail timestamps (seconds) a served series may end with: 115 s and 180 s
\* before the mount, and the epoch itself
TsEdge == (MountTime \div 1000) - 115

TsOld == (MountTime \div 1000) - 180

\* a series with the given prices whose points are one minute apart and whose
\* last point is at `tail`
MkSeries(prices, tail) ==
    [i \in 1..Len(prices) |-> <<tail - 60 * (Len(prices) - i), prices[i]>>]

\* series the history service may answer with: the empty one, one point at
\* the epoch, two points of price 0, and three points of prices 10, 0, 12
ServerSeries ==
    { << >>,
      << <<0, 10 * UnitsPerOne>> >>,
      MkSeries(<<0, 0>>, TsOld) }
    \cup { MkSeries(<<10 * UnitsPerOne, 0, 12 * UnitsPerOne>>, t) :
             t \in {TsEdge, TsOld} }

-----------------------------------------------------------------------------
(* JavaScript helpers *)

\* a ?? b
Nullish(a, b) == IF a = Undefined THEN b ELSE a

\* !x for an optional number: undefined and 0 are falsy
Falsy(x) == x = Undefined \/ x[1] = 0

\* the value no finite number equals (NaN, Infinity)
NaN == 0 - 2^30

\* Math.abs
Abs(x) == IF x = NaN THEN NaN ELSE IF x < 0 THEN 0 - x ELSE x

\* Math.round(num / den) for den > 0: halves go towards +Infinity
MathRound(num, den) ==
    (num \div den) + (IF 2 * (num % den) >= den THEN 1 ELSE 0)

\* util/round: round(value, precision) of the value num/den, as a count of
\* units of 10^-precision; a division by zero or by undefined is not a number
round(num, den, precision) ==
    IF den <= 0 THEN NaN ELSE MathRound(num * 10^precision, den)

\* util/dateFormat: an absolute date label, to the minute
formatShortDay(ms, a, b) == <<"day", ms \div 60000, a, b>>

\* lang('Now')
LangNow == <<"Now">>

-----------------------------------------------------------------------------
(* The render: lines 75-138 of TokenCard *)

shouldUseDefaultCurrency(bc, tok) == bc = Undefined \/ bc[1] = tok.symbol

chartCurrency(bc, tok) ==
    IF shouldUseDefaultCurrency(bc, tok) THEN DEFAULT_PRICE_CURRENCY ELSE bc[1]

\* historyPeriods?.[period]
historyOf(hp, p) == IF hp = Undefined THEN Undefined ELSE hp[1][p]

\* history?.length is truthy
HasLength(h) == h # Undefined /\ Len(h[1]) > 0

LastPoint(h) == h[1][Len(h[1])]

tokenLastUpdatedAt(h) ==
    IF HasLength(h) THEN Some(LastPoint(h)[1] * 1000) ELSE Undefined

tokenLastHistoryPrice(h, lastPrice) ==
    IF HasLength(h) THEN LastPoint(h)[2] ELSE lastPrice

\* history?.[selectedHistoryIndex]: an index outside the array reads undefined
selectedHistoryPoint(h, idx) ==
    IF h # Undefined /\ idx >= 0 /\ idx < Len(h[1])
    THEN Some(h[1][idx + 1])
    ELSE Undefined

priceOf(h, idx, bc, tok) ==
    LET sel == selectedHistoryPoint(h, idx)
        first == IF sel = Undefined THEN Undefined ELSE Some(sel[1][2])
        second == IF shouldUseDefaultCurrency(bc, tok)
                  THEN Some(tokenLastHistoryPrice(h, tok.price))
                  ELSE Undefined
    IN  Nullish(Nullish(first, second), Some(tok.price))[1]

\* variant: stale already when exactly OFFLINE_TIMEOUT has passed
isLoadingOf_AtTimeout(h, t) ==
    LET updatedAt == tokenLastUpdatedAt(h)
    IN  Falsy(updatedAt) \/ (t - updatedAt[1] >= OFFLINE_TIMEOUT)

isLoadingOf(h, t) ==
    LET updatedAt == tokenLastUpdatedAt(h)
    IN  Falsy(updatedAt) \/ (t - updatedAt[1] > OFFLINE_TIMEOUT)

\* variant: without a selection the label is always "now"
dateStrOf_AlwaysNow(h, idx, t) ==
    LET sel == selectedHistoryPoint(h, idx)
    IN  IF sel # Undefined
        THEN formatShortDay(sel[1][1] * 1000, TRUE, TRUE)
        ELSE LangNow

dateStrOf(h, idx, t) ==
    LET sel == selectedHistoryPoint(h, idx)
        updatedAt == tokenLastUpdatedAt(h)
    IN  IF sel # Undefined
        THEN formatShortDay(sel[1][1] * 1000, TRUE, TRUE)
        ELSE IF isLoadingOf(h, t) /\ ~Falsy(updatedAt)
             THEN formatShortDay(updatedAt[1], TRUE, FALSE)
             ELSE LangNow

\* variant: the first point is taken whatever its price
initialPriceOf_FirstPoint(h) ==
    IF ~HasLength(h) THEN Undefined ELSE Some(h[1][1][2])

\* history?.find(([, value]) => Boolean(value))?.[1]
initialPriceOf(h) ==
    IF h = Undefined \/ \A i \in 1..Len(h[1]) : h[1][i][2] = 0
    THEN Undefined
    ELSE LET first == CHOOSE i \in 1..Len(h[1]) :
                          /\ h[1][i][2] # 0
                          /\ \A j \in 1..(i - 1) : h[1][j][2] = 0
         IN  Some(h[1][first][2])

changeOf(h, lastPrice) ==
    LET ip == initialPriceOf(h)
    IN  IF ~Falsy(ip) /\ lastPrice # 0 THEN lastPrice - ip[1] ELSE 0

changePrefixOf(change) ==
    IF change > 0 THEN "up" ELSE IF change < 0 THEN "down" ELSE "flat"

\* in units of 0.0001
changeValueOf(change) ==
    IF change # 0 THEN Abs(round(change, UnitsPerOne, 4)) ELSE 0

\* variant: the percentage is computed without first testing the change
changePercentOf_Ungated(change, ip) ==
    Abs(round(change * 100, IF ip = Undefined THEN 0 ELSE ip[1], 2))

\* in units of 0.01 percent
changePercentOf(change, ip) ==
    IF change # 0
    THEN Abs(round(change * 100, IF ip = Undefined THEN 0 ELSE ip[1], 2))
    ELSE 0

IndexOfPeriod(p) == CHOOSE i \in 1..Len(HISTORY_PERIODS) : HISTORY_PERIODS[i] = p

\* variant: an empty history shows the spinner like an absent one
activeKeyOf_EmptyIsAbsent(h, p) ==
    IF ~HasLength(h) THEN 0 ELSE (IndexOfPeriod(p) - 1) + 1

\* <Transition activeKey=...>: 0 shows the loading spinner, -1 nothing,
\* a positive key the chart of that period
activeKeyOf(h, p) ==
    IF h = Undefined THEN 0
    ELSE IF Len(h[1]) > 0 THEN (IndexOfPeriod(p) - 1) + 1 ELSE 0 - 1

\* variant: the change is measured from the displayed price, so that it
\* follows the selected point
Snapshot_ChangeTracksSelection(tok, h, idx, bc, p, t) ==
    LET change == changeOf(h, priceOf(h, idx, bc, tok))
    IN  [ price         |-> priceOf(h, idx, bc, tok),
          isLoading     |-> isLoadingOf(h, t),
          dateStr       |-> dateStrOf(h, idx, t),
          initialPrice  |-> initialPriceOf(h),
          change        |-> change,
          changePrefix  |-> changePrefixOf(change),
          changeValue   |-> changeValueOf(change),
          changePercent |-> changePercentOf(change, initialPriceOf(h)),
          activeKey     |-> activeKeyOf(h, p),
          chartCurrency |-> chartCurrency(bc, tok) ]

\* what one render of the component shows
Snapshot(tok, h, idx, bc, p, t) ==
    LET change == changeOf(h, tok.price)
    IN  [ price         |-> priceOf(h, idx, bc, tok),
          isLoading     |-> isLoadingOf(h, t),
          dateStr       |-> dateStrOf(h, idx, t),
          initialPrice  |-> initialPriceOf(h),
          change        |-> change,
          changePrefix  |-> changePrefixOf(change),
          changeValue   |-> changeValueOf(change),
          changePercent |-> changePercentOf(change, initialPriceOf(h)),
          activeKey     |-> activeKeyOf(h, p),
          chartCurrency |-> chartCurrency(bc, tok) ]

history == historyOf(historyPeriods, period)

View == Snapshot(token, history, selectedHistoryIndex, baseCurrency, period,
                 renderedAt)

-----------------------------------------------------------------------------
(* Requests: lines 98-106, and the loadPriceHistory action they dispatch *)

\* variant: the period passed by the menu is ignored
refreshHistory_IgnoresArgument(newPeriod) ==
    [period |-> period, currency |-> Undefined]

\* variant: the callback keeps the period of the first render
refreshHistory_InitialPeriod(newPeriod) ==
    [period |-> Nullish(newPeriod, Some(DEFAULT_PERIOD))[1],
     currency |-> Undefined]

\* refreshHistory(newPeriod?): the payload it dispatches
refreshHistory(newPeriod) ==
    [period |-> Nullish(newPeriod, Some(period))[1], currency |-> Undefined]

\* handleCurrencyChange(currency): the payload it dispatches
handleCurrencyChange(currency) ==
    [period |-> period, currency |-> Some(currency)]

\* the key a payload is fetched for: a payload without a currency is fetched
\* in the base currency of the settings
RequestOf(payload, bc) ==
    [period   |-> payload.period,
     currency |-> Nullish(payload.currency,
                          Some(Nullish(bc, Some(DEFAULT_PRICE_CURRENCY))[1]))[1]]

\* the loadPriceHistory action: fire-and-forget request to the history service
loadPriceHistory(payload, bc) ==
    /\ Cardinality(inflight \cup {RequestOf(payload, bc)}) <= MaxInflight
    /\ inflight' = inflight \cup {RequestOf(payload, bc)}
    /\ lastPayload' = Some(payload)

\* the key (period, currency) the card currently shows
CurrentKey(p, bc) == RequestOf([period |-> p, currency |-> Undefined], bc)

\* the store after the answer to a request is applied: the series replaces,
\* wholesale, the entry of the request's period
StoreAfter(hp, req, series) ==
    IF hp = Undefined
    THEN Some([p \in Periods |-> IF p = req.period THEN Some(series) ELSE Undefined])
    ELSE Some([hp[1] EXCEPT ![req.period] = Some(series)])

\* useState setter of selectedHistoryIndex
setSelectedHistoryIndex(index) == selectedHistoryIndex' = index

\* a changed prop or state makes the component render, reading Date.now()
Render == renderedAt' = now

-----------------------------------------------------------------------------
(* Initial state and events *)

Init ==
    /\ token \in [symbol : {TokenSymbol}, price : LivePrices]
    /\ period = DEFAULT_PERIOD
    /\ baseCurrency \in {Undefined, Some(TokenSymbol)}
    /\ historyPeriods = Undefined
    /\ selectedHistoryIndex = 0 - 1
    /\ inflight = {}
    /\ lastPayload = Undefined
    /\ now = MountTime
    /\ renderedAt = MountTime
    /\ timer = Undefined
    /\ fetchedFor = [p \in Periods |-> Undefined]
    /\ overwritten = Undefined
    /\ lastApplied = Undefined

\* useInterval(refreshHistory, INTERVAL), for at most n ticks after the mount
TickWithin(n) ==
    /\ now < MountTime + n * INTERVAL
    /\ now' = now + INTERVAL
    /\ loadPriceHistory(refreshHistory(Undefined), baseCurrency)
    /\ UNCHANGED <<token, period, baseCurrency, historyPeriods,
                   selectedHistoryIndex, renderedAt, extras>>

Tick == TickWithin(MaxTicks)

\* <ChartHistorySwitcher onChange={refreshHistory}>: the user picks another
\* period p; the menu makes it the current period and calls onChange(p)
SwitchPeriod(p) ==
    /\ p # period
    /\ period' = p
    /\ loadPriceHistory(refreshHistory(Some(p)), baseCurrency)
    /\ Render
    /\ UNCHANGED <<token, baseCurrency, historyPeriods, selectedHistoryIndex,
                   now, extras>>

\* <CurrencySwitcher onChange={handleCurrencyChange}>: the user picks another
\* currency c (the menu excludes the token's symbol); the menu makes it the
\* base currency and calls onChange(c)
SwitchCurrency(c) ==
    /\ c # token.symbol
    /\ Some(c) # baseCurrency
    /\ baseCurrency' = Some(c)
    /\ loadPriceHistory(handleCurrencyChange(c), Some(c))
    /\ Render
    /\ UNCHANGED <<token, period, historyPeriods, selectedHistoryIndex, now,
                   extras>>

\* the indices of the prices the chart is given
ChartIndices ==
    IF HasLength(history) THEN 0..(Len(history[1]) - 1) ELSE {}

\* variant: moving over the chart also reloads the history
Scrub_AlsoRefreshes(index) ==
    /\ index \in ChartIndices
    /\ setSelectedHistoryIndex(index)
    /\ loadPriceHistory(refreshHistory(Undefined), baseCurrency)
    /\ Render
    /\ UNCHANGED <<token, period, baseCurrency, historyPeriods, now, extras>>

\* <TokenPriceChart onSelectIndex={setSelectedHistoryIndex}>: the chart is
\* rendered while the history has points, and reports a point of its prices
Scrub(index) ==
    /\ index \in ChartIndices
    /\ setSelectedHistoryIndex(index)
    /\ Render
    /\ UNCHANGED <<token, period, baseCurrency, historyPeriods, inflight,
                   lastPayload, now, extras>>

\* the chart reports that the pointer left it
Unscrub ==
    /\ HasLength(history)
    /\ setSelectedHistoryIndex(0 - 1)
    /\ Render
    /\ UNCHANGED <<token, period, baseCurrency, historyPeriods, inflight,
                   lastPayload, now, extras>>

\* the history service answers a request with a series: the series is
\* stored and the card renders
Answer(req, series) ==
    /\ req \in inflight
    /\ inflight' = inflight \ {req}
    /\ historyPeriods' = StoreAfter(historyPeriods, req, series)
    /\ Render
    /\ UNCHANGED <<token, period, baseCurrency, selectedHistoryIndex,
                   lastPayload, now>>

Response(req, series) == Answer(req, series) /\ UNCHANGED extras

\* a request fails or is never answered: nothing is stored
ResponseLost(req) ==
    /\ req \in inflight
    /\ inflight' = inflight \ {req}
    /\ UNCHANGED <<token, period, baseCurrency, historyPeriods,
                   selectedHistoryIndex, lastPayload, now, renderedAt, extras>>

Next ==
    \/ Tick
    \/ \E p \in Periods : SwitchPeriod(p)
    \/ \E c \in MenuCurrencies : SwitchCurrency(c)
    \/ \E i \in ChartIndices : Scrub(i)
    \/ Unscrub
    \/ \E req \in inflight, series \in ServerSeries : Response(req, series)
    \/ \E req \in inflight : ResponseLost(req)

Spec == Init /\ [][Next]_vars

-----------------------------------------------------------------------------
(* Vocabulary of the properties *)

NoSelection == selectedHistoryIndex = 0 - 1

SwitchStep ==
    \/ \E p \in Periods : SwitchPeriod(p)
    \/ \E c \in MenuCurrencies : SwitchCurrency(c)

-----------------------------------------------------------------------------
(* C1 *)

\* C1: after any switch of period or of currency, in whatever state it
\* occurs, the selection index is the "no selection" sentinel -1.
C1_SwitchClearsSelection ==
    [][SwitchStep => selectedHistoryIndex' = 0 - 1]_vars


-----------------------------------------------------------------------------
(* C2 *)

\* C2: in every reachable state the selection index is the sentinel or a
\* valid index, 0 <= index < length, of the currently active series.
C2_SelectionValid ==
    \/ NoSelection
    \/ /\ history # Undefined
       /\ selectedHistoryIndex >= 0
       /\ selectedHistoryIndex < Len(history[1])

-----------------------------------------------------------------------------
(* C3 *)

\* C3: the answer to a request whose key (period, currency) is not the
\* current one is stored under the request's key and leaves the active
\* series unchanged.
C3_ForeignResponseKeepsActiveSeries ==
    [][\A req \in inflight, series \in ServerSeries :
          (Response(req, series) /\ req # CurrentKey(period, baseCurrency))
          => /\ historyOf(historyPeriods', req.period) = Some(series)
             /\ historyOf(historyPeriods', period') = history]_vars

-----------------------------------------------------------------------------
(* C4 *)

\* the active series has a last point
HasTail == history # Undefined /\ Len(history[1]) > 0

TailTimestampMs == history[1][Len(history[1])][1] * 1000

SelectionIndices == (0 - 1)..2

\* C4: the staleness flag of the rendered snapshot is true exactly when the
\* active series has no tail timestamp (absent or empty) or the clock read
\* by the render is more than OFFLINE_TIMEOUT past the tail timestamp; and
\* the flag is the same for every selection index.
C4_StaleIffNoTailOrTimedOut ==
    /\ View.isLoading
         <=> (~HasTail \/ renderedAt - TailTimestampMs > OFFLINE_TIMEOUT)
    /\ \A idx \in SelectionIndices :
          Snapshot(token, history, idx, baseCurrency, period, renderedAt).isLoading
            = View.isLoading

\* a point older than the timeout is selected while the tail is exactly
\* OFFLINE_TIMEOUT old, and the view is not stale
C4_Witness ==
    /\ HasTail
    /\ selectedHistoryIndex = 0
    /\ renderedAt - history[1][1][1] * 1000 > OFFLINE_TIMEOUT
    /\ renderedAt - TailTimestampMs = OFFLINE_TIMEOUT
    /\ ~View.isLoading

-----------------------------------------------------------------------------
(* C5 *)

\* the active series has no point with a non-zero price
NoInitialPrice ==
    \/ history = Undefined
    \/ \A i \in 1..Len(history[1]) : history[1][i][2] = 0

\* C5: changePercent and changeAbsolute are numbers >= 0, never NaN, and
\* both are 0 whenever the initial price is absent (absent, empty or
\* all-zero series) or the change is 0.
C5_ChangeMagnitudesDefined ==
    /\ View.changePercent # NaN /\ View.changePercent >= 0
    /\ View.changeValue # NaN /\ View.changeValue >= 0
    /\ (NoInitialPrice \/ View.change = 0)
          => (View.changePercent = 0 /\ View.changeValue = 0)

\* an all-zero series is active while the asset has a live price
C5_Witness ==
    /\ HasTail
    /\ NoInitialPrice
    /\ token.price # 0

-----------------------------------------------------------------------------
(* C6 *)

\* C6: the displayed price is the selected point's price if a selection
\* exists (also when that price is 0); otherwise the tail price of the
\* active series if the series is non-empty and the card is in its default
\* currency; otherwise the asset's live price.
C6_PriceChain ==
    IF ~NoSelection
    THEN /\ history # Undefined
         /\ selectedHistoryIndex < Len(history[1])
         /\ View.price = history[1][selectedHistoryIndex + 1][2]
    ELSE IF HasTail /\ shouldUseDefaultCurrency(baseCurrency, token)
         THEN View.price = history[1][Len(history[1])][2]
         ELSE View.price = token.price

-----------------------------------------------------------------------------
(* C7 *)

\* C7: whenever the selection index is not the sentinel, the displayed date
\* is the timestamp of the selected point, stale or not.
C7_SelectedDate ==
    ~NoSelection
    => /\ history # Undefined
       /\ selectedHistoryIndex < Len(history[1])
       /\ View.dateStr
            = formatShortDay(history[1][selectedHistoryIndex + 1][1] * 1000,
                             TRUE, TRUE)

-----------------------------------------------------------------------------
(* C8 *)

\* C8: with no selection, the displayed date is the absolute date of the
\* tail timestamp whenever the view is stale, and the "now" label whenever
\* it is not.
C8_StaleShowsTailDate ==
    NoSelection
    => IF View.isLoading
       THEN /\ HasTail
            /\ View.dateStr = formatShortDay(TailTimestampMs, TRUE, FALSE)
       ELSE View.dateStr = LangNow

\* C8 as amended: with no selection, the displayed date is the absolute date
\* of the tail timestamp whenever the view is stale and the active series
\* has a (non-zero) tail timestamp; it is the "now" label whenever the view
\* is not stale, and also when it is stale for want of a tail timestamp.
C8_StaleWithTailShowsTailDate ==
    NoSelection
    => IF View.isLoading /\ HasTail /\ TailTimestampMs # 0
       THEN View.dateStr = formatShortDay(TailTimestampMs, TRUE, FALSE)
       ELSE View.dateStr = LangNow

\* the tail is 3 minutes old, nothing is selected, the view is stale
C8_Witness ==
    /\ NoSelection
    /\ HasTail
    /\ renderedAt - TailTimestampMs >= 180000
    /\ TailTimestampMs # 0
    /\ View.isLoading
    /\ View.dateStr # LangNow

-----------------------------------------------------------------------------------------------------------------------------------------------------
(* C9 *)

\* the currency a request without a currency is fetched in
CurrentCurrency ==
    IF baseCurrency = Undefined THEN DEFAULT_PRICE_CURRENCY ELSE baseCurrency[1]

\* C9: the latest request issued (by a tick, a period switch or a currency
\* switch) is for the key that is current after that event: its period is
\* the current period, and its currency is the current currency, named in
\* the payload or left to the action's default.
C9_FetchesAreForCurrentKey ==
    lastPayload # Undefined
    => /\ lastPayload[1].period = period
       /\ lastPayload[1].currency \in {Undefined, Some(CurrentCurrency)}
       /\ RequestOf(lastPayload[1], baseCurrency)
            = [period |-> period, currency |-> CurrentCurrency]

\* after a period switch and a currency switch, the only request in flight
\* is the one for the new period in the new currency
C9_Witness ==
    /\ period # DEFAULT_PERIOD
    /\ baseCurrency = Some("USD")
    /\ lastPayload # Undefined
    /\ inflight = {[period |-> period, currency |-> "USD"]}
    /\ history = Undefined

-----------------------------------------------------------------------------
(* C10 *)

\* the card shows the loading spinner
ShowsLoading == View.activeKey = 0

-----------------------------------------------------------------------------
(* Change indicator *)

\* the prices of the points of the active series, in order
SeriesPrices ==
    IF history = Undefined THEN << >>
    ELSE [i \in 1..Len(history[1]) |-> history[1][i][2]]

\* v is the price of the first point, scanning from the start, whose price
\* is not zero; undefined when there is no such point
IsFirstNonZero(v) ==
    IF \A i \in 1..Len(SeriesPrices) : SeriesPrices[i] = 0
    THEN v = Undefined
    ELSE \E i \in 1..Len(SeriesPrices) :
            /\ SeriesPrices[i] # 0
            /\ \A j \in 1..(i - 1) : SeriesPrices[j] = 0
            /\ v = Some(SeriesPrices[i])

\* the sign shown for a signed change
SignOf(x) == IF x > 0 THEN "up" ELSE IF x < 0 THEN "down" ELSE "flat"

\* initialPrice and the change indicator of a snapshot
ChangeShownOf(snap) ==
    <<snap.initialPrice, snap.change, snap.changePrefix, snap.changePercent,
      snap.changeValue>>

\* the snapshot of the worked example: initialPrice 10, change 2, up,
\* 20.00 percent, 2.0000 absolute
ExampleShown ==
    ChangeShownOf(View) =
        <<Some(10 * UnitsPerOne), 2 * UnitsPerOne, "up", 20 * 100, 2 * 10000>>

\* the state of the worked example: series of prices 10, 0, 12 and live
\* price 12
ExampleState ==
    /\ SeriesPrices = <<10 * UnitsPerOne, 0, 12 * UnitsPerOne>>
    /\ token.price = 12 * UnitsPerOne

\* C11 as stated: initialPrice is the first non-zero price of the active
\* series, change is the live price minus initialPrice, the percentage is
\* |change / initialPrice| x 100 rounded to 2 decimals and the absolute
\* change is |change| rounded to 4 decimals; the worked example shows
\* 10, 2, up, 20.00 and 2.0000
C11_ChangeIsLatestMinusInitial ==
    LET ip == initialPriceOf(history)
        change == IF ip = Undefined THEN 0 ELSE token.price - ip[1]
    IN  /\ IsFirstNonZero(ip)
        /\ ip # Undefined =>
              ChangeShownOf(View) =
                  <<ip, change, SignOf(change),
                    round(Abs(change) * 100, ip[1], 2),
                    round(Abs(change), UnitsPerOne, 4)>>
        /\ ExampleState => ExampleShown

\* C11, amended: initialPrice is the first non-zero price of the active
\* series; change is the live price minus initialPrice when initialPrice
\* is present and the live price is not zero, and 0 otherwise; the signed
\* values are rounded first and their magnitude is taken afterwards; the
\* worked example shows 10, 2, up, 20.00 and 2.0000
C11_ChangeGatedAndRoundedSigned ==
    LET ip == initialPriceOf(history)
        change == IF ip # Undefined /\ token.price # 0
                  THEN token.price - ip[1]
                  ELSE 0
    IN  /\ IsFirstNonZero(ip)
        /\ ChangeShownOf(View) =
              <<ip, change, SignOf(change),
                IF change = 0 THEN 0 ELSE Abs(round(change * 100, ip[1], 2)),
                IF change = 0 THEN 0 ELSE Abs(round(change, UnitsPerOne, 4))>>
        /\ ExampleState => ExampleShown

\* the worked example is on screen
C11_Witness == ExampleState /\ ExampleShown

-----------------------------------------------------------------------------
(* Selection requests that are not checked by the caller *)

\* indices a caller of onSelectIndex may pass: two negative ones and
\* positions up to one past the longest series
RawIndices == (0 - 2)..3

\* onSelectIndex={setSelectedHistoryIndex} (line 200) called with any index
\* while the chart is mounted: the callback is the state setter itself
Select(index) ==
    /\ HasLength(history)
    /\ setSelectedHistoryIndex(index)
    /\ Render
    /\ UNCHANGED <<token, period, baseCurrency, historyPeriods, inflight,
                   lastPayload, now, extras>>

NextSelect ==
    \/ Next
    \/ \E i \in RawIndices : Select(i)

\* the card with a caller of onSelectIndex that passes any index
SpecSelect == Init /\ [][NextSelect]_vars

\* index is the sentinel or a position of the active series
ValidIndex(index) ==
    \/ index = 0 - 1
    \/ HasLength(history) /\ index \in 0..(Len(history[1]) - 1)

\* C12: a select request whose index is not a position of the active series
\* (nor the sentinel) is a no-op: the selection and every other state
\* variable keep their values
C12_InvalidSelectIsNoOp ==
    [][\A i \in RawIndices :
          (Select(i) /\ ~ValidIndex(i)) =>
              UNCHANGED <<selectedHistoryIndex, token, period, baseCurrency,
                          historyPeriods, inflight>>]_vars

-----------------------------------------------------------------------------
(* The offline timer: useTimeout(forceUpdate, delay, [tokenLastUpdatedAt]) *)

\* the delay argument of line 121: isLoading ? undefined : OFFLINE_TIMEOUT
delayOf(h, t) == IF isLoadingOf(h, t) THEN Undefined ELSE Some(OFFLINE_TIMEOUT)

\* what the effect of useTimeout depends on: the delay and tokenLastUpdatedAt
TimeoutDeps(h, t) == <<delayOf(h, t), tokenLastUpdatedAt(h)>>

\* the timer after a render at time t that shows series h, when the render
\* before it showed h0 at t0 and left the timer `pending`: unchanged
\* dependencies keep it, changed ones cancel it and, if there is a delay,
\* start a new one
useTimeout(pending, h0, t0, h, t) ==
    IF TimeoutDeps(h, t) = TimeoutDeps(h0, t0) THEN pending
    ELSE IF delayOf(h, t) = Undefined THEN Undefined
    ELSE Some(t + delayOf(h, t)[1])

\* an answer is stored; the render it causes runs the effect of useTimeout
OfflineResponse(req, series) ==
    /\ Answer(req, series)
    /\ timer' = useTimeout(timer, history, renderedAt,
                           historyOf(historyPeriods', period), now)
    /\ UNCHANGED <<fetchedFor, overwritten, lastApplied>>

\* the timer expires and calls forceUpdate: the card renders
ForceUpdate ==
    /\ timer # Undefined
    /\ now >= timer[1]
    /\ Render
    /\ timer' = useTimeout(Undefined, history, renderedAt, history, now)
    /\ UNCHANGED <<token, period, baseCurrency, historyPeriods,
                   selectedHistoryIndex, inflight, lastPayload, now,
                   fetchedFor, overwritten, lastApplied>>

OfflineTick == TickWithin(MaxOfflineTicks)

NextOffline ==
    \/ OfflineTick
    \/ \E req \in inflight, series \in ServerSeries : OfflineResponse(req, series)
    \/ \E req \in inflight : ResponseLost(req)
    \/ ForceUpdate

\* the card left alone by the user for longer than OFFLINE_TIMEOUT
SpecOffline == Init /\ [][NextOffline]_vars

\* a step of the interval: only it moves the clock
TickStep == now' # now

\* C13: staleness is re-checked on every tick: after a tick, a tail (later
\* than the epoch) that is older than OFFLINE_TIMEOUT is reported as stale
\* by the snapshot on screen and, with no selection, dated with the tail
\* date; the tick changes neither the period nor the currency
C13_TickShowsStale ==
    [][TickStep =>
          /\ period' = period
          /\ baseCurrency' = baseCurrency
          /\ (/\ HasTail
              /\ TailTimestampMs > 0
              /\ now' - TailTimestampMs > OFFLINE_TIMEOUT) =>
                /\ View'.isLoading
                /\ NoSelection =>
                      View'.dateStr =
                          formatShortDay(TailTimestampMs, TRUE, FALSE)]_vars

-----------------------------------------------------------------------------
(* Scrubbing *)

\* the chart reports a point, or that the pointer left it
ScrubStep == (\E i \in ChartIndices : Scrub(i)) \/ Unscrub

\* C14: scrub(index) and unscrub() leave the current period, the current
\* currency, the price-history store and the issued and in-flight requests
\* as they are: scrubbing triggers no fetch
C14_ScrubChangesOnlySelection ==
    [][ScrubStep =>
          UNCHANGED <<period, baseCurrency, historyPeriods, inflight,
                      lastPayload>>]_vars

\* a point is selected while a request is in flight and the user has
\* switched the period
C14_Witness ==
    /\ selectedHistoryIndex = 1
    /\ renderedAt > MountTime
    /\ inflight # {}
    /\ period # DEFAULT_PERIOD

-----------------------------------------------------------------------------
(* The change indicator and the selection *)

\* what the card would show in the same state with index i selected
ViewWith(i) == Snapshot(token, history, i, baseCurrency, period, renderedAt)

\* the change indicator of a snapshot
ChangeShown(snap) ==
    <<snap.change, snap.changePrefix, snap.changePercent, snap.changeValue>>

\* C15: the change indicator does not follow the selection: in states that
\* differ only in the selected index, change, its sign, its percentage and
\* its absolute value are the same
C15_ChangeIgnoresSelection ==
    \A i \in SelectionIndices : ChangeShown(ViewWith(i)) = ChangeShown(View)

\* a point is selected whose price is not the one shown without a
\* selection, and the change is not zero
C15_Witness ==
    /\ selectedHistoryIndex = 0
    /\ View.price # ViewWith(0 - 1).price
    /\ View.change # 0

-----------------------------------------------------------------------------
(* Where the displayed price comes from *)

\* an answer is stored; the key it was requested for is recorded with it
KeyedResponse(req, series) ==
    /\ Answer(req, series)
    /\ fetchedFor' = [fetchedFor EXCEPT ![req.period] = Some(req)]
    /\ UNCHANGED <<timer, overwritten, lastApplied>>

NextKeyed ==
    \/ Tick
    \/ \E p \in Periods : SwitchPeriod(p)
    \/ \E c \in MenuCurrencies : SwitchCurrency(c)
    \/ \E i \in ChartIndices : Scrub(i)
    \/ Unscrub
    \/ \E req \in inflight, series \in ServerSeries : KeyedResponse(req, series)
    \/ \E req \in inflight : ResponseLost(req)

\* the card, with the key of every stored series on record
SpecKeyed == Init /\ [][NextKeyed]_vars

\* the displayed price is read from the active series: a point is selected,
\* or the default currency is shown and the series has a tail (lines 113-114)
PriceFromSeries ==
    \/ selectedHistoryPoint(history, selectedHistoryIndex) # Undefined
    \/ shouldUseDefaultCurrency(baseCurrency, token) /\ HasTail

\* the prices of the selected point and of the tail of the active series
SeriesCandidates ==
    LET sel == selectedHistoryPoint(history, selectedHistoryIndex)
    IN  (IF sel = Undefined THEN {} ELSE {sel[1][2]})
        \cup (IF HasTail THEN {LastPoint(history)[2]} ELSE {})

\* the displayed price is a number and is the price of the selected point
\* or of the tail of the active series, or the live price
PriceIsTailSelectedOrLive ==
    /\ View.price \in Int
    /\ View.price \in SeriesCandidates \cup {token.price}

\* C17: in every reachable state the displayed price is defined and is the
\* price of a point of the active series (the selected one or the tail) or
\* the live price, and when it is read from a series, that series was stored
\* for the current period and currency, never for another key
C17_PriceFromCurrentKeyOrLive ==
    /\ PriceIsTailSelectedOrLive
    /\ PriceFromSeries =>
          fetchedFor[period] = Some(CurrentKey(period, baseCurrency))

-----------------------------------------------------------------------------
(* Overlapping requests and the order of their answers *)

\* the instants of the mount and of the ticks
TickTimes == {MountTime + k * INTERVAL : k \in 0..MaxOrderTicks}

\* the history as the service knows it at instant t: its tail is at t
SeriesAsOf(t) == MkSeries(<<10 * UnitsPerOne>>, t \div 1000)

\* the tail timestamp (seconds) of the stored series of period p, if any
StoredTail(hp, p) ==
    IF HasLength(historyOf(hp, p))
    THEN Some(LastPoint(historyOf(hp, p))[1])
    ELSE Undefined

\* the loadPriceHistory action, each dispatch on record with its instant,
\* whether the interval made it, and the period that was current
loadPriceHistoryAt(payload, bc, at, byTick, cur) ==
    LET sent == [key      |-> RequestOf(payload, bc),
                 issuedAt |-> at,
                 byTick   |-> byTick,
                 current  |-> cur]
    IN  /\ Cardinality(inflight \cup {sent}) <= MaxInflight
        /\ inflight' = inflight \cup {sent}
        /\ lastPayload' = Some(payload)

\* useInterval(refreshHistory, INTERVAL)
OrderedTick ==
    /\ now < MountTime + MaxOrderTicks * INTERVAL
    /\ now' = now + INTERVAL
    /\ loadPriceHistoryAt(refreshHistory(Undefined), baseCurrency, now', TRUE,
                          period)
    /\ UNCHANGED <<token, period, baseCurrency, historyPeriods,
                   selectedHistoryIndex, renderedAt, extras>>

\* <ChartHistorySwitcher onChange={refreshHistory}>
OrderedSwitchPeriod(p) ==
    /\ p # period
    /\ period' = p
    /\ loadPriceHistoryAt(refreshHistory(Some(p)), baseCurrency, now, FALSE, p)
    /\ Render
    /\ UNCHANGED <<token, baseCurrency, historyPeriods, selectedHistoryIndex,
                   now, extras>>

\* the instants as of which a request may be answered: not before it was
\* sent, not after the answer arrives
AnswerTimes(req) == {t \in TickTimes : req.issuedAt <= t /\ t <= now}

\* the service answers a request with the history as of instant asOf; the
\* answer replaces the stored series of its period, newer or not
OrderedResponse(req, asOf) ==
    /\ req \in inflight
    /\ asOf \in AnswerTimes(req)
    /\ inflight' = inflight \ {req}
    /\ historyPeriods' = StoreAfter(historyPeriods, req.key, SeriesAsOf(asOf))
    /\ Render
    /\ lastApplied' = Some(req)
    /\ overwritten' =
          LET old == StoredTail(historyPeriods, req.key.period)
          IN  IF old # Undefined /\ old[1] > asOf \div 1000
              THEN Some([period |-> req.key.period, tail |-> old[1], at |-> now])
              ELSE overwritten
    /\ UNCHANGED <<token, period, baseCurrency, selectedHistoryIndex,
                   lastPayload, now, timer, fetchedFor>>

InitOrder ==
    /\ Init
    /\ token.price = 12 * UnitsPerOne
    /\ baseCurrency = Undefined

NextOrder ==
    \/ OrderedTick
    \/ \E p \in Periods : OrderedSwitchPeriod(p)
    \/ \E req \in inflight : \E asOf \in AnswerTimes(req) :
          OrderedResponse(req, asOf)
    \/ \E req \in inflight : ResponseLost(req)

\* the card with every request and the age of every answer on record
SpecOrder == InitOrder /\ [][NextOrder]_vars

\* the answer stored last is the one to the fetch of the first tick after
\* the latest replacement of newer data by older
NextTickAnswerApplied ==
    /\ overwritten # Undefined
    /\ lastApplied # Undefined
    /\ lastApplied[1].byTick
    /\ lastApplied[1].issuedAt = overwritten[1].at + INTERVAL

\* the entry that lost newer data holds data at least as new again
Repaired ==
    /\ StoredTail(historyPeriods, overwritten[1].period) # Undefined
    /\ StoredTail(historyPeriods, overwritten[1].period)[1] >= overwritten[1].tail

\* C16 as stated: when an older answer has overwritten newer data of a key,
\* the entry of that key holds data at least as new as the overwritten one
\* once the answer to the next tick's fetch is applied
C16_NextTickRepairs == NextTickAnswerApplied => Repaired

\* C16, amended: the same, provided the overwritten key was still the
\* current one at that tick
C16_NextTickRepairsCurrentKey ==
    (NextTickAnswerApplied /\ lastApplied[1].current = overwritten[1].period)
        => Repaired

\* an older answer overwrote newer data of the current period, and the
\* answer to the next tick's fetch has been applied and repaired the entry
C16_Witness ==
    /\ NextTickAnswerApplied
    /\ lastApplied[1].current = overwritten[1].period
    /\ overwritten[1].period = period
    /\ Repaired

====
